---- MODULE Spec2Model ----
(***************************************************************************)
(* Library-management backend (FastAPI handlers over a MongoDB store).     *)
(* The model covers the book catalog, the borrow ledger and the sequence   *)
(* generator.  Every request handler is a coroutine; each awaited database *)
(* call is one atomic step, and steps of different requests interleave.    *)
(***************************************************************************)
EXTENDS Integers, Sequences, FiniteSets, TLC

\* ------------------------------------------------------------------ bounds
MaxOverlap == 1      \* requests that may start while another one is in flight
MaxCatalog == 1      \* book ids handed out when all handlers run together
MaxBookId == 2       \* book ids handed out when only the catalog handlers run
MaxTotal == 2        \* cap on the copy counters written by add requests
MaxRecords == 2      \* cap on the number of borrow records
MaxRegistered == 1   \* cap on the number of users registered after the start
MaxSignups == 2      \* the same cap when only registrations and deletions run

Procs == {1, 2}      \* request slots: two requests can be in flight together
BookIds == 1..MaxBookId
CopiesArgs == 0..MaxTotal
InRange(c) == 0 <= c /\ c <= MaxTotal
Titles == {"A"}
Author == "B"

\* ------------------------------------------------------------------ state
VARIABLES
    users,           \* db.users: user id -> [present, role]
    books,           \* db.books: book id -> document
    borrow_records,  \* db.borrow_records: sequence of documents, index = _id
    counters,        \* db.counters: the "bookid" document
    issued,          \* values returned by get_next_sequence so far, in order
    returned_ok,     \* per borrow record: number of 200 responses to its return
    overlaps,        \* requests started so far while another one was in flight
    procs,           \* per request slot: position in its handler and locals
    reply            \* the HTTP response sent by the last step, if any

vars == <<users, books, borrow_records, counters, issued, returned_ok, overlaps, procs, reply>>
db == <<users, books, borrow_records, counters>>

\* The ids (ObjectId) of the users stored at the start, and those given to
\* the users registered later, in the order of their insertion.
FirstUserIds == {"u1", "a1"}
NewUserName == <<"u2", "u3", "u4">>
NewUserIds == {NewUserName[i] : i \in 1..MaxSignups}
UserIds == FirstUserIds \cup NewUserIds

\* Variant: every string is taken for a role.
valid_roles_any == {"member", "admin", "guest"}

\* UserCreate.role is any string; "guest" stands for one that is no role.
valid_roles == {"member", "admin"}
Roles == valid_roles \cup {"guest"}
Emails == {"u1@x", "new@x"}

NoUser == [present |-> FALSE, removed |-> FALSE, role |-> "", email |-> ""]

NoBook ==
    [present |-> FALSE, title |-> "", author |-> "", total_copies |-> 0,
     available_copies |-> 0, borrowed_copies |-> 0, available |-> FALSE,
     discontinued |-> FALSE]

Idle ==
    [pc |-> "idle", user |-> "", book_id |-> 0, n |-> 0, flag |-> FALSE,
     title |-> "", total |-> 0, avail |-> 0, borrowed |-> 0, rec |-> 0,
     return_time |-> 0, target |-> "", raw_id |-> "", role |-> "", email |-> ""]

NoReply ==
    [op |-> "", status |-> 0, detail |-> "", user |-> "",
     book_id |-> 0, n |-> 0, rec |-> 0, target |-> "", role |-> ""]

Response(p, op, status, detail, user, book_id, n, rec) ==
    [op |-> op, status |-> status, detail |-> detail,
     user |-> user, book_id |-> book_id, n |-> n, rec |-> rec,
     target |-> "", role |-> ""]

\* The response of a handler of users: target is the user the path names
\* (ObjectId of the string, or Invalid), role the role asked for.
UserResponse(op, status, detail, user, target, role) ==
    [op |-> op, status |-> status, detail |-> detail,
     user |-> user, book_id |-> 0, n |-> 0, rec |-> 0,
     target |-> target, role |-> role]

Init ==
    /\ users = [u \in UserIds |->
                  IF u \in FirstUserIds
                  THEN [present |-> TRUE, removed |-> FALSE,
                        role |-> IF u = "a1" THEN "admin" ELSE "member",
                        email |-> IF u = "a1" THEN "a1@x" ELSE "u1@x"]
                  ELSE NoUser]
    /\ books = [b \in BookIds |-> NoBook]
    /\ borrow_records = <<>>
    /\ counters = [present |-> FALSE, sequence_value |-> 0]
    /\ issued = <<>>
    /\ returned_ok = <<>>
    /\ overlaps = 0
    /\ procs = [p \in Procs |-> Idle]
    /\ reply = NoReply

\* ------------------------------------------------------ request plumbing
\* utils/dependencies.py: the caller must be a stored user (get_current_user)
\* and, on admin routes, have role "admin" (admin_required).
get_current_user(u) == u \in UserIds /\ users[u].present
is_admin(u) == users[u].role = "admin"

OthersInFlight(p) == \E q \in Procs \ {p} : procs[q].pc # "idle"

\* A request that starts while another one is in flight uses up one of the
\* MaxOverlap overlaps.
Overlap(p) ==
    IF procs[p].pc = "idle" /\ OthersInFlight(p)
    THEN overlaps < MaxOverlap /\ overlaps' = overlaps + 1
    ELSE overlaps' = overlaps

\* The request in slot p ends with a response.
Finish(p, r) ==
    /\ procs' = [procs EXCEPT ![p] = Idle]
    /\ reply' = r
    /\ Overlap(p)

\* The request in slot p moves on to its next database call.
Goto(p, st) ==
    /\ procs' = [procs EXCEPT ![p] = st]
    /\ reply' = NoReply
    /\ Overlap(p)

\* A new request takes the lowest free slot (slots are interchangeable).
At(p, pc) ==
    /\ procs[p].pc = pc
    /\ pc = "idle" => \A q \in Procs : q < p => procs[q].pc # "idle"
InFlight(pc) == Cardinality({p \in Procs : procs[p].pc = pc})

AdminRoutes ==
    {"add_book", "add_book_copies", "remove_book_copies", "update_book_status",
     "delete_book_copies", "discontinue_book"}

\* An admin route called by a non-admin is refused before the handler runs.
admin_required(p) ==
    /\ At(p, "idle")
    /\ \E u \in UserIds, op \in AdminRoutes :
         /\ get_current_user(u)
         /\ ~is_admin(u)
         /\ Finish(p, Response(p, op, 403, "Admin access required", u, 0, 0, 0))
    /\ UNCHANGED <<users, books, borrow_records, counters, issued, returned_ok>>

\* ------------------------------------------------------ sequence generator
\* find_one_and_update({"_id": name}, {"$inc": {"sequence_value": 1}},
\*                     return_document=AFTER, upsert=True)
inc_upsert(c) ==
    IF c.present
    THEN [c EXCEPT !.sequence_value = @ + 1]
    ELSE [present |-> TRUE, sequence_value |-> 1]

\* Variant: return_document=BEFORE, the value read before the increment.
get_next_sequence_before(c) == c.sequence_value

get_next_sequence(c) == inc_upsert(c).sequence_value


\* ------------------------------------------------------------ db.books
find_one(id) == IF id \in BookIds THEN books[id] ELSE NoBook

\* update_one({"id": id}, {"$set": ...}): the stored document becomes doc when
\* a document with that id is stored; nothing happens otherwise.
update_one(id, doc) ==
    IF find_one(id).present THEN [books EXCEPT ![id] = doc] ELSE books

\* UpdateResult.modified_count: 1 when a document matched and was changed.
modified_count(id, doc) ==
    IF find_one(id).present /\ doc # find_one(id) THEN 1 ELSE 0

\* DeleteResult.deleted_count of delete_one({"id": id}).
deleted_count(id) == IF find_one(id).present THEN 1 ELSE 0

same_title_author(doc, title, author) ==
    doc.present /\ doc.title = title /\ doc.author = author

\* ------------------------------------------------------------- add_book
\* books.py 29-30
add_book_new_total(existing_total, copies) == existing_total + copies
add_book_new_available(existing_available, copies) == existing_available + copies

\* books.py 35-39
add_book_set(doc, new_total, new_available) ==
    [doc EXCEPT !.total_copies = new_total,
                !.available_copies = new_available,
                !.available = TRUE]

\* books.py 50-57
new_book(title, author, copies) ==
    [present |-> TRUE, title |-> title, author |-> author,
     total_copies |-> copies, available_copies |-> copies,
     borrowed_copies |-> 0, available |-> TRUE, discontinued |-> FALSE]

\* books.py 22-27: look the (title, author) up and branch.
add_book_find(p, max_id) ==
    /\ At(p, "idle")
    /\ \E u \in UserIds, title \in Titles, copies \in CopiesArgs :
         /\ get_current_user(u) /\ is_admin(u)
         /\ LET found == {b \in BookIds : same_title_author(books[b], title, Author)}
            IN IF found # {}
               THEN \E b \in found :
                      /\ InRange(add_book_new_total(books[b].total_copies, copies))
                      /\ InRange(add_book_new_available(books[b].available_copies, copies))
                      /\ Goto(p, [Idle EXCEPT !.pc = "add_book_update", !.user = u,
                                              !.book_id = b, !.n = copies, !.title = title,
                                              !.total = books[b].total_copies,
                                              !.avail = books[b].available_copies])
               ELSE /\ counters.sequence_value + InFlight("add_book_sequence") < max_id
                    /\ Goto(p, [Idle EXCEPT !.pc = "add_book_sequence", !.user = u,
                                            !.n = copies, !.title = title])
    /\ UNCHANGED <<users, books, borrow_records, counters, issued, returned_ok>>

\* books.py 32-41
add_book_update(p) ==
    /\ At(p, "add_book_update")
    /\ LET st == procs[p]
           doc == add_book_set(find_one(st.book_id),
                               add_book_new_total(st.total, st.n),
                               add_book_new_available(st.avail, st.n))
       IN /\ books' = update_one(st.book_id, doc)
          /\ Goto(p, [st EXCEPT !.pc = "add_book_refetch", !.total = 0, !.avail = 0])
    /\ UNCHANGED <<users, borrow_records, counters, issued, returned_ok>>

\* books.py 44-46: the response is built from a second read; subscripting the
\* None of a book removed meanwhile raises, which the framework answers 500.
add_book_refetch(p) ==
    /\ At(p, "add_book_refetch")
    /\ LET st == procs[p]
       IN IF find_one(st.book_id).present
          THEN Finish(p, Response(p, "add_book", 200, "merged", st.user, st.book_id, st.n, 0))
          ELSE Finish(p, Response(p, "add_book", 500, "Internal Server Error",
                                  st.user, st.book_id, st.n, 0))
    /\ UNCHANGED <<users, books, borrow_records, counters, issued, returned_ok>>

\* books.py 49 and 10-17
add_book_sequence(p) ==
    /\ At(p, "add_book_sequence")
    /\ counters' = inc_upsert(counters)
    /\ issued' = Append(issued, get_next_sequence(counters))
    /\ Goto(p, [procs[p] EXCEPT !.pc = "add_book_insert",
                                !.book_id = get_next_sequence(counters)])
    /\ UNCHANGED <<users, books, borrow_records, returned_ok>>

\* books.py 50-60
add_book_insert(p) ==
    /\ At(p, "add_book_insert")
    /\ LET st == procs[p]
       IN /\ books' = IF st.book_id \in BookIds
                      THEN [books EXCEPT ![st.book_id] = new_book(st.title, Author, st.n)]
                      ELSE books
          /\ Finish(p, Response(p, "add_book", 200, "created", st.user, st.book_id, st.n, 0))
    /\ UNCHANGED <<users, borrow_records, counters, issued, returned_ok>>


\* ------------------------------------------------------ add_book_copies
\* books.py 94-95
add_copies_new_total(total, copies) == total + copies
add_copies_new_available(available, copies) == available + copies

\* books.py 100-104
add_copies_set(doc, new_total, new_available) ==
    [doc EXCEPT !.total_copies = new_total,
                !.available_copies = new_available,
                !.available = TRUE]

\* books.py 87-92
add_book_copies_find(p) ==
    /\ At(p, "idle")
    /\ \E u \in UserIds, b \in BookIds, copies \in CopiesArgs :
         /\ get_current_user(u) /\ is_admin(u)
         /\ IF copies <= 0
            THEN Finish(p, Response(p, "add_book_copies", 400,
                                    "Number of copies must be positive", u, b, copies, 0))
            ELSE IF ~find_one(b).present
            THEN Finish(p, Response(p, "add_book_copies", 404, "Book not found",
                                    u, b, copies, 0))
            ELSE /\ InRange(add_copies_new_total(books[b].total_copies, copies))
                 /\ InRange(add_copies_new_available(books[b].available_copies, copies))
                 /\ Goto(p, [Idle EXCEPT !.pc = "add_book_copies_update", !.user = u,
                                         !.book_id = b, !.n = copies,
                                         !.total = books[b].total_copies,
                                         !.avail = books[b].available_copies])
    /\ UNCHANGED <<users, books, borrow_records, counters, issued, returned_ok>>

\* books.py 97-111
add_book_copies_update(p) ==
    /\ At(p, "add_book_copies_update")
    /\ LET st == procs[p]
           doc == add_copies_set(find_one(st.book_id),
                                 add_copies_new_total(st.total, st.n),
                                 add_copies_new_available(st.avail, st.n))
       IN /\ books' = update_one(st.book_id, doc)
          /\ IF modified_count(st.book_id, doc) = 0
             THEN Finish(p, Response(p, "add_book_copies", 404, "Book not found",
                                     st.user, st.book_id, st.n, 0))
             ELSE Finish(p, Response(p, "add_book_copies", 200, "Added",
                                     st.user, st.book_id, st.n, 0))
    /\ UNCHANGED <<users, borrow_records, counters, issued, returned_ok>>

\* --------------------------------------------------- remove_book_copies
\* books.py 124
remove_exceeds_available(copies, available_copies) == copies > available_copies

\* books.py 130-134
remove_new_total(total, copies) == total - copies
remove_new_available(available, copies) == available - copies
remove_is_available(new_available) == new_available > 0

\* books.py 139-143
remove_copies_set(doc, new_total, new_available) ==
    [doc EXCEPT !.total_copies = new_total,
                !.available_copies = new_available,
                !.available = remove_is_available(new_available)]

\* books.py 116-128
remove_book_copies_find(p) ==
    /\ At(p, "idle")
    /\ \E u \in UserIds, b \in BookIds, copies \in CopiesArgs :
         /\ get_current_user(u) /\ is_admin(u)
         /\ IF copies <= 0
            THEN Finish(p, Response(p, "remove_book_copies", 400,
                                    "Number of copies must be positive", u, b, copies, 0))
            ELSE IF ~find_one(b).present
            THEN Finish(p, Response(p, "remove_book_copies", 404, "Book not found",
                                    u, b, copies, 0))
            ELSE IF remove_exceeds_available(copies, books[b].available_copies)
            THEN Finish(p, Response(p, "remove_book_copies", 400, "Cannot remove copies",
                                    u, b, copies, 0))
            ELSE /\ InRange(remove_new_total(books[b].total_copies, copies))
                 /\ Goto(p, [Idle EXCEPT !.pc = "remove_book_copies_update", !.user = u,
                                         !.book_id = b, !.n = copies,
                                         !.total = books[b].total_copies,
                                         !.avail = books[b].available_copies])
    /\ UNCHANGED <<users, books, borrow_records, counters, issued, returned_ok>>

\* books.py 130-150
remove_book_copies_update(p) ==
    /\ At(p, "remove_book_copies_update")
    /\ LET st == procs[p]
           doc == remove_copies_set(find_one(st.book_id),
                                    remove_new_total(st.total, st.n),
                                    remove_new_available(st.avail, st.n))
       IN /\ books' = update_one(st.book_id, doc)
          /\ IF modified_count(st.book_id, doc) = 0
             THEN Finish(p, Response(p, "remove_book_copies", 404, "Book not found",
                                     st.user, st.book_id, st.n, 0))
             ELSE Finish(p, Response(p, "remove_book_copies", 200, "Removed",
                                     st.user, st.book_id, st.n, 0))
    /\ UNCHANGED <<users, borrow_records, counters, issued, returned_ok>>

\* --------------------------------------------------- update_book_status
\* books.py 163-170
status_new_available(available, total_copies) == IF available THEN total_copies ELSE 0
status_new_borrowed(available, total_copies) == IF available THEN 0 ELSE total_copies

\* books.py 175-179
status_set(doc, available, new_available, new_borrowed) ==
    [doc EXCEPT !.available = available,
                !.available_copies = new_available,
                !.borrowed_copies = new_borrowed]

\* books.py 156-161
update_book_status_find(p) ==
    /\ At(p, "idle")
    /\ \E u \in UserIds, b \in BookIds, available \in BOOLEAN :
         /\ get_current_user(u) /\ is_admin(u)
         /\ IF ~find_one(b).present
            THEN Finish(p, Response(p, "update_book_status", 404, "Book not found",
                                    u, b, 0, 0))
            ELSE Goto(p, [Idle EXCEPT !.pc = "update_book_status_update", !.user = u,
                                      !.book_id = b, !.flag = available,
                                      !.total = books[b].total_copies])
    /\ UNCHANGED <<users, books, borrow_records, counters, issued, returned_ok>>

\* books.py 163-186
update_book_status_update(p) ==
    /\ At(p, "update_book_status_update")
    /\ LET st == procs[p]
           doc == status_set(find_one(st.book_id), st.flag,
                             status_new_available(st.flag, st.total),
                             status_new_borrowed(st.flag, st.total))
       IN /\ books' = update_one(st.book_id, doc)
          /\ IF modified_count(st.book_id, doc) = 0
             THEN Finish(p, Response(p, "update_book_status", 404, "Book not found",
                                     st.user, st.book_id, 0, 0))
             ELSE Finish(p, Response(p, "update_book_status", 200, "Book status updated",
                                     st.user, st.book_id, 0, 0))
    /\ UNCHANGED <<users, borrow_records, counters, issued, returned_ok>>

\* --------------------------------- delete_book_copies, discontinue_book
\* books.py 199 and 224
copies_are_borrowed(borrowed_copies) == borrowed_copies > 0

\* books.py 191-203
delete_book_copies_find(p) ==
    /\ At(p, "idle")
    /\ \E u \in UserIds, b \in BookIds :
         /\ get_current_user(u) /\ is_admin(u)
         /\ IF ~find_one(b).present
            THEN Finish(p, Response(p, "delete_book_copies", 404, "Book not found",
                                    u, b, 0, 0))
            ELSE IF copies_are_borrowed(books[b].borrowed_copies)
            THEN Finish(p, Response(p, "delete_book_copies", 400,
                                    "Cannot discontinue book", u, b, 0, 0))
            ELSE Goto(p, [Idle EXCEPT !.pc = "delete_book_copies_delete", !.user = u,
                                      !.book_id = b])
    /\ UNCHANGED <<users, books, borrow_records, counters, issued, returned_ok>>

\* books.py 206-211
delete_book_copies_delete(p) ==
    /\ At(p, "delete_book_copies_delete")
    /\ LET st == procs[p]
       IN /\ books' = IF find_one(st.book_id).present
                      THEN [books EXCEPT ![st.book_id] = NoBook]
                      ELSE books
          /\ IF deleted_count(st.book_id) = 0
             THEN Finish(p, Response(p, "delete_book_copies", 404, "Book not found",
                                     st.user, st.book_id, 0, 0))
             ELSE Finish(p, Response(p, "delete_book_copies", 200, "removed",
                                     st.user, st.book_id, 0, 0))
    /\ UNCHANGED <<users, borrow_records, counters, issued, returned_ok>>

\* books.py 234-240
discontinue_set(doc) ==
    [doc EXCEPT !.total_copies = 0, !.available_copies = 0, !.borrowed_copies = 0,
                !.available = FALSE, !.discontinued = TRUE]

\* books.py 217-228
discontinue_book_find(p) ==
    /\ At(p, "idle")
    /\ \E u \in UserIds, b \in BookIds :
         /\ get_current_user(u) /\ is_admin(u)
         /\ IF ~find_one(b).present
            THEN Finish(p, Response(p, "discontinue_book", 404, "Book not found",
                                    u, b, 0, 0))
            ELSE IF copies_are_borrowed(books[b].borrowed_copies)
            THEN Finish(p, Response(p, "discontinue_book", 400,
                                    "Cannot discontinue book", u, b, 0, 0))
            ELSE Goto(p, [Idle EXCEPT !.pc = "discontinue_book_update", !.user = u,
                                      !.book_id = b])
    /\ UNCHANGED <<users, books, borrow_records, counters, issued, returned_ok>>

\* books.py 231-247
discontinue_book_update(p) ==
    /\ At(p, "discontinue_book_update")
    /\ LET st == procs[p]
           doc == discontinue_set(find_one(st.book_id))
       IN /\ books' = update_one(st.book_id, doc)
          /\ IF modified_count(st.book_id, doc) = 0
             THEN Finish(p, Response(p, "discontinue_book", 404, "Book not found",
                                     st.user, st.book_id, 0, 0))
             ELSE Finish(p, Response(p, "discontinue_book", 200, "discontinued",
                                     st.user, st.book_id, 0, 0))
    /\ UNCHANGED <<users, borrow_records, counters, issued, returned_ok>>


\* ------------------------------------------------------ db.borrow_records
None == 0            \* returned_at of a record that is still on loan

RecordIds == 1..Len(borrow_records)

\* The greatest element of a non-empty set of numbers.
Latest(S) == CHOOSE x \in S : \A y \in S : y <= x

\* datetime.utcnow(): time is kept as the order of the readings, each one
\* later than every timestamp stored in the ledger or held by a request.
utcnow ==
    1 + Latest({None} \cup {borrow_records[r].returned_at : r \in RecordIds}
                      \cup {procs[p].return_time : p \in Procs})
is_active(rec) == rec.returned_at = None

\* borrow.py 30-34: find_one({"user_id": u, "book_id": b, "returned_at": None})
existing_borrow(u, b) ==
    {r \in RecordIds : /\ borrow_records[r].user_id = u
                       /\ borrow_records[r].book_id = b
                       /\ is_active(borrow_records[r])}

ActiveRecords(b) ==
    {r \in RecordIds : borrow_records[r].book_id = b /\ is_active(borrow_records[r])}

\* ------------------------------------------------------------ borrow_book
BorrowPcs == {"borrow_book_find_existing", "borrow_book_update", "borrow_book_insert"}
BorrowsInFlight == Cardinality({p \in Procs : procs[p].pc \in BorrowPcs})

\* Variant: only a negative counter refuses the request.
no_copies_available_negative(available_copies) == available_copies < 0

\* borrow.py 26
no_copies_available(available_copies) == available_copies <= 0

\* borrow.py 40-44
borrow_new_available(available_copies) == available_copies - 1
borrow_new_borrowed(borrowed_copies) == borrowed_copies + 1
borrow_is_available(new_available) == new_available > 0

\* borrow.py 49-53
borrow_set(doc, new_available, new_borrowed) ==
    [doc EXCEPT !.available_copies = new_available,
                !.borrowed_copies = new_borrowed,
                !.available = borrow_is_available(new_available)]

\* Variant: a conditional update, whose filter also names the counter read.
borrow_update_one_conditional(id, doc, read_available) ==
    IF find_one(id).available_copies = read_available THEN update_one(id, doc) ELSE books

\* borrow.py 46-47: the filter of the counter update is the book id alone.
borrow_update_one(id, doc, read_available) == update_one(id, doc)

\* borrow.py 20-27
borrow_book_find(p) ==
    /\ At(p, "idle")
    /\ \E u \in UserIds, b \in BookIds :
         /\ get_current_user(u)
         /\ IF ~find_one(b).present
            THEN Finish(p, Response(p, "borrow_book", 404, "Book not found", u, b, 0, 0))
            ELSE IF no_copies_available(books[b].available_copies)
            THEN Finish(p, Response(p, "borrow_book", 400,
                                    "No copies of this book are currently available",
                                    u, b, 0, 0))
            ELSE /\ Len(borrow_records) + BorrowsInFlight < MaxRecords
                 /\ Goto(p, [Idle EXCEPT !.pc = "borrow_book_find_existing", !.user = u,
                                         !.book_id = b,
                                         !.avail = books[b].available_copies,
                                         !.borrowed = books[b].borrowed_copies])
    /\ UNCHANGED <<users, books, borrow_records, counters, issued, returned_ok>>

\* borrow.py 30-37
borrow_book_find_existing(p) ==
    /\ At(p, "borrow_book_find_existing")
    /\ LET st == procs[p]
       IN IF existing_borrow(st.user, st.book_id) # {}
          THEN Finish(p, Response(p, "borrow_book", 400,
                                  "You already have this book borrowed",
                                  st.user, st.book_id, 0, 0))
          ELSE Goto(p, [st EXCEPT !.pc = "borrow_book_update"])
    /\ UNCHANGED <<users, books, borrow_records, counters, issued, returned_ok>>

\* borrow.py 40-55
borrow_book_update(p) ==
    /\ At(p, "borrow_book_update")
    /\ LET st == procs[p]
           doc == borrow_set(find_one(st.book_id), borrow_new_available(st.avail),
                             borrow_new_borrowed(st.borrowed))
       IN /\ books' = borrow_update_one(st.book_id, doc, st.avail)
          /\ Goto(p, [st EXCEPT !.pc = "borrow_book_insert", !.avail = 0, !.borrowed = 0])
    /\ UNCHANGED <<users, borrow_records, counters, issued, returned_ok>>

\* borrow.py 58-68
borrow_book_insert(p) ==
    /\ At(p, "borrow_book_insert")
    /\ LET st == procs[p]
       IN /\ borrow_records' =
                Append(borrow_records,
                       [user_id |-> st.user, book_id |-> st.book_id, returned_at |-> None])
          /\ returned_ok' = Append(returned_ok, 0)
          /\ Finish(p, Response(p, "borrow_book", 200, "borrowed", st.user, st.book_id,
                                0, Len(borrow_records) + 1))
    /\ UNCHANGED <<users, books, counters, issued>>

\* ------------------------------------------------------------ return_book
\* borrow.py 84
already_returned(rec) == rec.returned_at # None

\* Variant: only the borrower may return, an admin may not.
cannot_return_unless_borrower(rec, u) == rec.user_id # u

\* borrow.py 88
cannot_return(rec, u) == rec.user_id # u /\ users[u].role # "admin"

\* Variant: the return leaves borrowed_copies as it was read.
return_new_borrowed_kept(borrowed_copies) == borrowed_copies

\* borrow.py 97-101
return_new_available(available_copies) == available_copies + 1
return_new_borrowed(borrowed_copies) ==
    IF borrowed_copies - 1 > 0 THEN borrowed_copies - 1 ELSE 0

\* borrow.py 115-119
return_set(doc, new_available, new_borrowed) ==
    [doc EXCEPT !.available_copies = new_available,
                !.borrowed_copies = new_borrowed,
                !.available = TRUE]

\* borrow.py 76-89; record id 0 stands for a string that is no ObjectId.
return_book_find(p) ==
    /\ At(p, "idle")
    /\ \E u \in UserIds, r \in 0..MaxRecords :
         /\ get_current_user(u)
         /\ IF r = 0
            THEN Finish(p, Response(p, "return_book", 400, "Invalid borrow ID format",
                                    u, 0, 0, r))
            ELSE IF r \notin RecordIds
            THEN Finish(p, Response(p, "return_book", 404, "Borrow record not found",
                                    u, 0, 0, r))
            ELSE IF already_returned(borrow_records[r])
            THEN Finish(p, Response(p, "return_book", 400, "Book already returned",
                                    u, borrow_records[r].book_id, 0, r))
            ELSE IF cannot_return(borrow_records[r], u)
            THEN Finish(p, Response(p, "return_book", 403,
                                    "Cannot return someone else's book",
                                    u, borrow_records[r].book_id, 0, r))
            ELSE Goto(p, [Idle EXCEPT !.pc = "return_book_find_book", !.user = u,
                                      !.rec = r, !.book_id = borrow_records[r].book_id])
    /\ UNCHANGED <<users, books, borrow_records, counters, issued, returned_ok>>

\* borrow.py 92-103: return_time is read before the record update is awaited.
return_book_find_book(p) ==
    /\ At(p, "return_book_find_book")
    /\ LET st == procs[p]
       IN IF ~find_one(st.book_id).present
          THEN Finish(p, Response(p, "return_book", 404, "Book not found",
                                  st.user, st.book_id, 0, st.rec))
          ELSE Goto(p, [st EXCEPT !.pc = "return_book_update_record",
                                  !.return_time = utcnow,
                                  !.avail = find_one(st.book_id).available_copies,
                                  !.borrowed = find_one(st.book_id).borrowed_copies])
    /\ UNCHANGED <<users, books, borrow_records, counters, issued, returned_ok>>

\* borrow.py 106-109
return_book_update_record(p) ==
    /\ At(p, "return_book_update_record")
    /\ LET st == procs[p]
       IN /\ borrow_records' = [borrow_records EXCEPT ![st.rec].returned_at = st.return_time]
          /\ Goto(p, [st EXCEPT !.pc = "return_book_update_book"])
    /\ UNCHANGED <<users, books, counters, issued, returned_ok>>

\* borrow.py 112-127
return_book_update_book(p) ==
    /\ At(p, "return_book_update_book")
    /\ LET st == procs[p]
           doc == return_set(find_one(st.book_id), return_new_available(st.avail),
                             return_new_borrowed(st.borrowed))
       IN /\ books' = update_one(st.book_id, doc)
          /\ returned_ok' = [returned_ok EXCEPT ![st.rec] = @ + 1]
          /\ Finish(p, Response(p, "return_book", 200, "returned", st.user, st.book_id,
                                0, st.rec))
    /\ UNCHANGED <<users, borrow_records, counters, issued>>

\* ------------------------------------------------------------ db.users
\* A user id arrives as a string of the path.  ObjectId(s) accepts the 24 hex
\* digits in either case and str(ObjectId(s)) is the lower-case spelling, the
\* one stored as user_id in the borrow records.
Invalid == "invalid"
UpperCase(u) ==
    CASE u = "u1" -> "U1" [] u = "a1" -> "A1" [] u = "u2" -> "U2"
      [] u = "u3" -> "U3" [] u = "u4" -> "U4" [] OTHER -> u
PathIds == UserIds \cup {UpperCase(u) : u \in UserIds} \cup {"zz"}
ObjectId(s) ==
    IF s \in UserIds THEN s
    ELSE IF \E u \in UserIds : UpperCase(u) = s
    THEN CHOOSE u \in UserIds : UpperCase(u) = s
    ELSE Invalid

find_user(u) == IF u \in UserIds THEN users[u] ELSE NoUser

\* The users inserted since the start; a deleted user's id is not used again.
Registered == Cardinality({u \in NewUserIds : users[u].present \/ users[u].removed})

\* ------------------------------------------------------------- register
\* auth.py 31-33
email_registered(email) == \E u \in UserIds : users[u].present /\ users[u].email = email

\* auth.py 36: the document holds the role the caller sent, whatever it is.
new_user(email, role) ==
    [present |-> TRUE, removed |-> FALSE, role |-> role, email |-> email]

\* auth.py 31-35
register_find(p, max_users) ==
    /\ At(p, "idle")
    /\ \E email \in Emails, role \in Roles :
         IF email_registered(email)
         THEN Finish(p, UserResponse("register", 400, "Email already registered",
                                     "", "", role))
         ELSE /\ Registered + InFlight("register_insert") < max_users
              /\ Goto(p, [Idle EXCEPT !.pc = "register_insert", !.email = email,
                                      !.role = role])
    /\ UNCHANGED <<users, books, borrow_records, counters, issued, returned_ok>>

\* auth.py 36-38
register_insert(p) ==
    /\ At(p, "register_insert")
    /\ LET st == procs[p]
           id == NewUserName[Registered + 1]
       IN /\ users' = [users EXCEPT ![id] = new_user(st.email, st.role)]
          /\ Finish(p, UserResponse("register", 200, "registered", "", id, st.role))
    /\ UNCHANGED <<books, borrow_records, counters, issued, returned_ok>>

\* ----------------------------------------------------------- delete_user
\* users.py 51-54: the filter holds the id as the caller wrote it.
active_borrows(raw_id) ==
    {r \in RecordIds : borrow_records[r].user_id = raw_id /\ is_active(borrow_records[r])}

\* users.py 34-48
delete_user_find(p) ==
    /\ At(p, "idle")
    /\ \E u \in UserIds, raw \in PathIds :
         /\ get_current_user(u)
         /\ IF ~is_admin(u)
            THEN Finish(p, UserResponse("delete_user", 403, "Admin access required",
                                        u, ObjectId(raw), ""))
            ELSE IF ObjectId(raw) = Invalid
            THEN Finish(p, UserResponse("delete_user", 400, "Invalid user ID format",
                                        u, ObjectId(raw), ""))
            ELSE IF ~find_user(ObjectId(raw)).present
            THEN Finish(p, UserResponse("delete_user", 404, "User not found", u, ObjectId(raw), ""))
            ELSE IF ObjectId(raw) = u
            THEN Finish(p, UserResponse("delete_user", 400,
                                        "You cannot delete your own account", u, ObjectId(raw), ""))
            ELSE Goto(p, [Idle EXCEPT !.pc = "delete_user_find_borrows", !.user = u,
                                      !.target = ObjectId(raw), !.raw_id = raw])
    /\ UNCHANGED <<users, books, borrow_records, counters, issued, returned_ok>>

\* users.py 51-60
delete_user_find_borrows(p) ==
    /\ At(p, "delete_user_find_borrows")
    /\ LET st == procs[p]
       IN IF active_borrows(st.raw_id) # {}
          THEN Finish(p, UserResponse("delete_user", 400,
                                      "Cannot delete user with active borrows",
                                      st.user, st.target, ""))
          ELSE Goto(p, [st EXCEPT !.pc = "delete_user_delete"])
    /\ UNCHANGED <<users, books, borrow_records, counters, issued, returned_ok>>

\* users.py 63-71
delete_user_delete(p) ==
    /\ At(p, "delete_user_delete")
    /\ LET st == procs[p]
       IN IF find_user(st.target).present
          THEN /\ users' = [users EXCEPT ![st.target].present = FALSE,
                                         ![st.target].removed = TRUE]
               /\ Finish(p, UserResponse("delete_user", 200, "deleted",
                                         st.user, st.target, ""))
          ELSE /\ users' = users
               /\ Finish(p, UserResponse("delete_user", 404, "User not found",
                                         st.user, st.target, ""))
    /\ UNCHANGED <<books, borrow_records, counters, issued, returned_ok>>

\* ------------------------------------------------------ change_user_role
\* users.py 74-101
change_user_role_find(p) ==
    /\ At(p, "idle")
    /\ \E u \in UserIds, user_obj_id \in {ObjectId(raw) : raw \in PathIds},
         new_role \in Roles :
         /\ get_current_user(u)
         /\ IF ~is_admin(u)
            THEN Finish(p, UserResponse("change_user_role", 403, "Admin access required",
                                        u, user_obj_id, new_role))
            ELSE IF new_role \notin valid_roles
            THEN Finish(p, UserResponse("change_user_role", 400, "Invalid role",
                                        u, user_obj_id, new_role))
            ELSE IF user_obj_id = Invalid
            THEN Finish(p, UserResponse("change_user_role", 400, "Invalid user ID format",
                                        u, user_obj_id, new_role))
            ELSE IF ~find_user(user_obj_id).present
            THEN Finish(p, UserResponse("change_user_role", 404, "User not found",
                                        u, user_obj_id, new_role))
            ELSE IF user_obj_id = u
            THEN Finish(p, UserResponse("change_user_role", 400,
                                        "You cannot change your own role", u, user_obj_id, new_role))
            ELSE IF find_user(user_obj_id).role = new_role
            THEN Finish(p, UserResponse("change_user_role", 400, "User already has role",
                                        u, user_obj_id, new_role))
            ELSE Goto(p, [Idle EXCEPT !.pc = "change_user_role_update", !.user = u,
                                      !.target = user_obj_id, !.role = new_role])
    /\ UNCHANGED <<users, books, borrow_records, counters, issued, returned_ok>>

\* users.py 104-117
change_user_role_update(p) ==
    /\ At(p, "change_user_role_update")
    /\ LET st == procs[p]
       IN IF find_user(st.target).present /\ find_user(st.target).role # st.role
          THEN /\ users' = [users EXCEPT ![st.target].role = st.role]
               /\ Finish(p, UserResponse("change_user_role", 200, "role changed",
                                         st.user, st.target, st.role))
          ELSE /\ users' = users
               /\ Finish(p, UserResponse("change_user_role", 404, "User not found",
                                         st.user, st.target, st.role))
    /\ UNCHANGED <<books, borrow_records, counters, issued, returned_ok>>

\* ---------------------------------------------------------- specification
add_book(p, max_id) ==
    \/ add_book_find(p, max_id)
    \/ add_book_update(p)
    \/ add_book_refetch(p)
    \/ add_book_sequence(p)
    \/ add_book_insert(p)

borrow_book(p) ==
    \/ borrow_book_find(p)
    \/ borrow_book_find_existing(p)
    \/ borrow_book_update(p)
    \/ borrow_book_insert(p)

return_book(p) ==
    \/ return_book_find(p)
    \/ return_book_find_book(p)
    \/ return_book_update_record(p)
    \/ return_book_update_book(p)

\* All handlers of the catalog and the ledger, interleaved at their awaits.
Next ==
    \E p \in Procs :
        \/ admin_required(p)
        \/ add_book(p, MaxCatalog)
        \/ add_book_copies_find(p)
        \/ add_book_copies_update(p)
        \/ remove_book_copies_find(p)
        \/ remove_book_copies_update(p)
        \/ update_book_status_find(p)
        \/ update_book_status_update(p)
        \/ delete_book_copies_find(p)
        \/ delete_book_copies_delete(p)
        \/ discontinue_book_find(p)
        \/ discontinue_book_update(p)
        \/ borrow_book(p)
        \/ return_book(p)

Spec == Init /\ [][Next]_vars

\* The same handlers, one request at a time.
SerialNext == Next /\ overlaps' = 0

SpecSerial == Init /\ [][SerialNext]_vars

\* Books are added, borrowed and returned.
LoansNext ==
    \E p \in Procs :
        \/ add_book(p, MaxCatalog)
        \/ borrow_book(p)
        \/ return_book(p)

SpecLoans == Init /\ [][LoansNext]_vars

\* Books are added and borrowed; nothing is returned.
BorrowNext ==
    \E p \in Procs :
        \/ add_book(p, MaxCatalog)
        \/ borrow_book(p)

SpecBorrow == Init /\ [][BorrowNext]_vars

\* Books are added and removed: the sequence generator under concurrent calls.
CatalogNext ==
    \E p \in Procs :
        \/ add_book(p, MaxBookId)
        \/ delete_book_copies_find(p)
        \/ delete_book_copies_delete(p)

SpecCatalog == Init /\ [][CatalogNext]_vars

\* The catalog and the ledger without the legacy PUT, one request at a time.
LedgerNext ==
    /\ \E p \in Procs :
          \/ add_book(p, MaxCatalog)
          \/ add_book_copies_find(p)
          \/ add_book_copies_update(p)
          \/ remove_book_copies_find(p)
          \/ remove_book_copies_update(p)
          \/ delete_book_copies_find(p)
          \/ delete_book_copies_delete(p)
          \/ discontinue_book_find(p)
          \/ discontinue_book_update(p)
          \/ borrow_book(p)
          \/ return_book(p)
    /\ overlaps' = 0

SpecLedger == Init /\ [][LedgerNext]_vars

register(p, max_users) == register_find(p, max_users) \/ register_insert(p)

delete_user(p) ==
    \/ delete_user_find(p)
    \/ delete_user_find_borrows(p)
    \/ delete_user_delete(p)

change_user_role(p) == change_user_role_find(p) \/ change_user_role_update(p)

\* Users register, are given roles and are deleted.
AccountsNext ==
    \E p \in Procs :
        \/ register(p, MaxRegistered)
        \/ delete_user(p)
        \/ change_user_role(p)

SpecAccounts == Init /\ [][AccountsNext]_vars

\* Users register and are deleted: registrations under concurrent calls.
SignupNext ==
    \E p \in Procs :
        \/ register(p, MaxSignups)
        \/ delete_user(p)

SpecSignup == Init /\ [][SignupNext]_vars

\* Users are deleted while books are borrowed and returned.
MembersNext ==
    \E p \in Procs :
        \/ delete_user(p)
        \/ add_book(p, MaxCatalog)
        \/ borrow_book(p)
        \/ return_book(p)

SpecMembers == Init /\ [][MembersNext]_vars


\* =================================================================== claims
Took(p, from, to) == procs[p].pc = from /\ procs'[p].pc = to

StoredBooks == {b \in BookIds : books[b].present}

\* C1: every stored book has available_copies + borrowed_copies = total_copies
\* with both counters >= 0, after any sequence of requests.
C1_Original ==
    \A b \in StoredBooks :
        /\ books[b].available_copies + books[b].borrowed_copies = books[b].total_copies
        /\ books[b].available_copies >= 0
        /\ books[b].borrowed_copies >= 0

\* C2: at most one ACTIVE borrow record per (user_id, book_id), also when two
\* borrow requests of the same user for the same book run concurrently.
C2_Original ==
    \A u \in UserIds, b \in BookIds : Cardinality(existing_borrow(u, b)) <= 1

\* C3: the counter update of a successful borrow takes exactly one copy from
\* available_copies, adds one to borrowed_copies, leaves total_copies alone and
\* sets available = (available_copies > 0); its insert adds exactly one ACTIVE
\* record for (user, book).
C3_Original ==
    [][\A p \in Procs :
          /\ Took(p, "borrow_book_update", "borrow_book_insert") =>
               LET b == procs[p].book_id
               IN /\ books'[b].available_copies = books[b].available_copies - 1
                  /\ books'[b].borrowed_copies = books[b].borrowed_copies + 1
                  /\ books'[b].total_copies = books[b].total_copies
                  /\ books'[b].available = (books'[b].available_copies > 0)
          /\ Took(p, "borrow_book_insert", "idle") =>
               /\ borrow_records' =
                     Append(borrow_records,
                            [user_id |-> procs[p].user, book_id |-> procs[p].book_id,
                             returned_at |-> None])
               /\ books' = books]_vars


\* The error taxonomy of the responses to borrow requests.
NotFoundReply(r) == r.status = 404 /\ r.detail = "Book not found"
FailedPreconditionReply(r) ==
    r.status = 400 /\ r.detail = "No copies of this book are currently available"
ConflictReply(r) ==
    r.status = 400 /\ r.detail = "You already have this book borrowed"

\* A borrow request answered by its first database call: no slot changes.
BorrowAnsweredAtOnce == reply'.op = "borrow_book" /\ procs' = procs

\* C4 as stated: a borrow request fails with NotFound when the book is absent,
\* with FailedPrecondition when available_copies <= 0, and with Conflict when
\* the caller holds an ACTIVE record for the book; nothing is written.
C4_Original ==
    [][BorrowAnsweredAtOnce =>
          LET doc == find_one(reply'.book_id)
          IN /\ ~doc.present => NotFoundReply(reply')
             /\ doc.present /\ doc.available_copies <= 0 => FailedPreconditionReply(reply')
             /\ existing_borrow(reply'.user, reply'.book_id) # {} => ConflictReply(reply')
             /\ UNCHANGED <<books, borrow_records>>]_vars

\* C4 as amended: the three checks are made in this order, each on the state
\* read by its own database call: NotFound when the book is absent; otherwise
\* FailedPrecondition when available_copies <= 0 (also when the caller holds an
\* ACTIVE record); otherwise Conflict when the ledger lookup finds an ACTIVE
\* record of the caller for the book.  A failing request writes nothing, and a
\* request that passed the three checks does not fail.
C4_Amended ==
    [][/\ BorrowAnsweredAtOnce =>
            LET doc == find_one(reply'.book_id)
            IN /\ IF ~doc.present
                  THEN NotFoundReply(reply')
                  ELSE doc.available_copies <= 0 /\ FailedPreconditionReply(reply')
               /\ UNCHANGED <<books, borrow_records, counters>>
       /\ \A p \in Procs :
            /\ Took(p, "idle", "borrow_book_find_existing") =>
                 /\ find_one(procs'[p].book_id).present
                 /\ find_one(procs'[p].book_id).available_copies > 0
                 /\ UNCHANGED <<books, borrow_records, counters>>
            /\ (procs[p].pc = "borrow_book_find_existing" /\ procs'[p] # procs[p]) =>
                 /\ IF existing_borrow(procs[p].user, procs[p].book_id) # {}
                    THEN /\ procs'[p] = Idle
                         /\ reply'.op = "borrow_book"
                         /\ ConflictReply(reply')
                    ELSE procs'[p].pc = "borrow_book_update"
                 /\ UNCHANGED <<books, borrow_records, counters>>
            /\ (procs[p].pc \in {"borrow_book_update", "borrow_book_insert"}
                  /\ procs'[p] = Idle) =>
                 reply'.op = "borrow_book" /\ reply'.status = 200]_vars

\* A borrow request of a user who holds the last copy was refused with
\* FailedPrecondition, not Conflict.
C4_Witness ==
    /\ reply.op = "borrow_book"
    /\ FailedPreconditionReply(reply)
    /\ existing_borrow(reply.user, reply.book_id) # {}

Max0(x) == IF x > 0 THEN x ELSE 0

\* C5: the counter update of a successful return adds exactly one copy to
\* available_copies, takes one from borrowed_copies (floored at 0) and sets
\* available; the record update sets that record's returned_at; every other
\* record and book is left unchanged.
C5_Original ==
    [][\A p \in Procs :
          /\ Took(p, "return_book_update_book", "idle") =>
               LET b == procs[p].book_id
               IN /\ books'[b].available_copies = books[b].available_copies + 1
                  /\ books'[b].borrowed_copies = Max0(books[b].borrowed_copies - 1)
                  /\ books'[b].available
                  /\ \A c \in BookIds \ {b} : books'[c] = books[c]
                  /\ borrow_records' = borrow_records
          /\ Took(p, "return_book_update_record", "return_book_update_book") =>
               /\ borrow_records'[procs[p].rec].returned_at # None
               /\ \A r \in RecordIds \ {procs[p].rec} :
                    borrow_records'[r] = borrow_records[r]
               /\ books' = books]_vars

\* C6: of the return requests for one borrow record at most one succeeds.
C6_Original == \A r \in DOMAIN returned_ok : returned_ok[r] <= 1

\* C7: every counter mutation acts on the stored document as one atomic
\* update: the write of add_book (merge), add-copies, remove-copies, borrow and
\* return changes the counters stored at that moment by the request's own
\* amount, so that no concurrent update is lost.
C7_Original ==
    [][\A p \in Procs :
          LET b == procs[p].book_id
              n == procs[p].n
          IN /\ (Took(p, "add_book_update", "add_book_refetch") /\ find_one(b).present) =>
                  /\ books'[b].total_copies = books[b].total_copies + n
                  /\ books'[b].available_copies = books[b].available_copies + n
             /\ (Took(p, "add_book_copies_update", "idle") /\ find_one(b).present) =>
                  /\ books'[b].total_copies = books[b].total_copies + n
                  /\ books'[b].available_copies = books[b].available_copies + n
             /\ (Took(p, "remove_book_copies_update", "idle") /\ find_one(b).present) =>
                  /\ books'[b].total_copies = books[b].total_copies - n
                  /\ books'[b].available_copies = books[b].available_copies - n
             /\ (Took(p, "borrow_book_update", "borrow_book_insert") /\ find_one(b).present) =>
                  /\ books'[b].available_copies = books[b].available_copies - 1
                  /\ books'[b].borrowed_copies = books[b].borrowed_copies + 1
             /\ (Took(p, "return_book_update_book", "idle") /\ find_one(b).present) =>
                  /\ books'[b].available_copies = books[b].available_copies + 1
                  /\ books'[b].borrowed_copies = Max0(books[b].borrowed_copies - 1)]_vars

\* C8: two borrow requests of different users that both read
\* available_copies = 1 both succeed.  Once a request has read the counters
\* nothing it meets later stops it, unless the ledger holds an ACTIVE record of
\* its own user: its counter update stores the values computed from its own
\* read, whatever is stored by then, and its insert adds an ACTIVE record and
\* answers 200.  The over-allocation shows as ACTIVE records in excess of the
\* copies, never as a negative available_copies.
C8_Overallocation ==
    [][/\ \A p \in Procs :
            LET st == procs[p]
                b == st.book_id
            IN /\ (st.pc = "borrow_book_find_existing" /\ procs'[p] # st
                      /\ existing_borrow(st.user, b) = {}) =>
                    /\ procs'[p].pc = "borrow_book_update"
                    /\ procs'[p].avail = st.avail
               /\ Took(p, "borrow_book_update", "borrow_book_insert") =>
                    /\ books'[b].available_copies = st.avail - 1
                    /\ books'[b].borrowed_copies = st.borrowed + 1
                    /\ books'[b].total_copies = books[b].total_copies
               /\ Took(p, "borrow_book_insert", "idle") =>
                    /\ reply'.op = "borrow_book" /\ reply'.status = 200
                    /\ Len(borrow_records') = Len(borrow_records) + 1
                    /\ is_active(borrow_records'[reply'.rec])
                    /\ borrow_records'[reply'.rec].user_id = st.user
                    /\ borrow_records'[reply'.rec].book_id = b
       /\ \A b \in BookIds : books'[b].available_copies >= 0]_vars

\* Both borrow requests for the only copy of a book succeeded: two users hold
\* ACTIVE records, the counters show one copy borrowed and none available.
C8_Witness ==
    \E b \in StoredBooks :
        /\ books[b].total_copies = 1
        /\ books[b].available_copies = 0
        /\ books[b].borrowed_copies = 1
        /\ Cardinality({borrow_records[r].user_id : r \in ActiveRecords(b)}) = 2
        /\ reply.op = "borrow_book" /\ reply.status = 200 /\ reply.book_id = b

\* The requests that called the sequence generator and have not inserted
\* their book yet.
PendingIds == {p \in Procs : procs[p].pc = "add_book_insert"}

\* C9: the calls of get_next_sequence("bookid"), in the order the store
\* serves them, return 1, 2, 3, ... without gap or repetition, the first call
\* creating the counter; the counter holds the last value returned, and
\* requests that wait with an id hold pairwise distinct ids.
C9_Sequence ==
    /\ \A i \in DOMAIN issued : issued[i] = i
    /\ counters.sequence_value = Len(issued)
    /\ counters.present <=> Len(issued) > 0
    /\ \A p, q \in PendingIds : p # q => procs[p].book_id # procs[q].book_id
    /\ \A p \in PendingIds : procs[p].book_id \in DOMAIN issued

\* Two add_book requests are in flight together, each with the id it was given.
C9_Witness ==
    /\ PendingIds = Procs
    /\ {procs[p].book_id : p \in Procs} = {1, 2}
    /\ issued = <<1, 2>>

\* An add_book_copies request of an admin answered before any database write.
AddCopiesAnsweredAtOnce ==
    reply'.op = "add_book_copies" /\ is_admin(reply'.user) /\ procs' = procs

\* C10: add_book_copies with n > 0 on a stored book adds n to total_copies and
\* to available_copies, sets available and leaves borrowed_copies alone; it
\* answers 400 when n <= 0 and 404 when the book is absent, writing nothing.
C10_Original ==
    [][/\ AddCopiesAnsweredAtOnce =>
            /\ IF reply'.n <= 0
               THEN reply'.status = 400
               ELSE ~find_one(reply'.book_id).present /\ reply'.status = 404
            /\ UNCHANGED db
       /\ \A p \in Procs :
            /\ Took(p, "idle", "add_book_copies_update") =>
                 /\ procs'[p].n > 0
                 /\ find_one(procs'[p].book_id).present
            /\ (Took(p, "add_book_copies_update", "idle")
                  /\ find_one(procs[p].book_id).present) =>
                 LET b == procs[p].book_id
                     n == procs[p].n
                 IN /\ books'[b].total_copies = books[b].total_copies + n
                    /\ books'[b].available_copies = books[b].available_copies + n
                    /\ books'[b].available
                    /\ books'[b].borrowed_copies = books[b].borrowed_copies
                    /\ reply'.status = 200]_vars

\* A remove_book_copies request of an admin answered before any database write.
RemoveCopiesAnsweredAtOnce ==
    reply'.op = "remove_book_copies" /\ is_admin(reply'.user) /\ procs' = procs

\* C11: remove_book_copies with n > available_copies fails and changes no
\* field of the book; with 0 < n <= available_copies it takes n from
\* total_copies and from available_copies, sets available =
\* (available_copies > 0) and leaves total_copies >= borrowed_copies.
C11_Original ==
    [][/\ RemoveCopiesAnsweredAtOnce =>
            /\ reply'.status # 200
            /\ UNCHANGED db
            /\ (reply'.n > 0 /\ find_one(reply'.book_id).present) =>
                   reply'.n > find_one(reply'.book_id).available_copies
       /\ \A p \in Procs :
            /\ Took(p, "idle", "remove_book_copies_update") =>
                 /\ procs'[p].n > 0
                 /\ procs'[p].n <= find_one(procs'[p].book_id).available_copies
            /\ (Took(p, "remove_book_copies_update", "idle")
                  /\ find_one(procs[p].book_id).present) =>
                 LET b == procs[p].book_id
                     n == procs[p].n
                 IN /\ books'[b].total_copies = books[b].total_copies - n
                    /\ books'[b].available_copies = books[b].available_copies - n
                    /\ books'[b].available = (books'[b].available_copies > 0)
                    /\ books'[b].total_copies >= books'[b].borrowed_copies
                    /\ books'[b].borrowed_copies = books[b].borrowed_copies
                    /\ reply'.status = 200]_vars

\* A delete_book_copies or discontinue_book request of an admin answered
\* before any database write.
DiscontinueAnsweredAtOnce ==
    /\ reply'.op \in {"delete_book_copies", "discontinue_book"}
    /\ is_admin(reply'.user)
    /\ procs' = procs

\* C12: delete_book_copies and discontinue_book fail on a book with
\* borrowed_copies > 0 and leave it unchanged; a book document is deleted or
\* zeroed only while its stored borrowed_copies is 0.
C12_Original ==
    [][/\ DiscontinueAnsweredAtOnce =>
            /\ reply'.status # 200
            /\ UNCHANGED db
       /\ \A p \in Procs :
            /\ (procs[p].pc = "idle"
                  /\ procs'[p].pc \in {"delete_book_copies_delete",
                                       "discontinue_book_update"}) =>
                 /\ find_one(procs'[p].book_id).borrowed_copies = 0
                 /\ UNCHANGED db
            /\ (procs[p].pc \in {"delete_book_copies_delete", "discontinue_book_update"}
                  /\ procs'[p].pc = "idle" /\ books' # books) =>
                 find_one(procs[p].book_id).borrowed_copies = 0]_vars

\* The stored books with the given title (the author is the same for all).
BooksTitled(title) == {b \in BookIds : same_title_author(books[b], title, Author)}

\* C13: add_book for a stored (title, author) draws no id and creates no
\* document; its update adds the given count to total_copies and to
\* available_copies of the matching document and leaves its borrowed_copies
\* and every other document unchanged.
C13_Original ==
    [][\A p \in Procs :
          /\ Took(p, "idle", "add_book_sequence") => BooksTitled(procs'[p].title) = {}
          /\ Took(p, "idle", "add_book_update") =>
               /\ procs'[p].book_id \in BooksTitled(procs'[p].title)
               /\ UNCHANGED db
          /\ Took(p, "add_book_update", "add_book_refetch") =>
               LET b == procs[p].book_id
                   n == procs[p].n
               IN /\ UNCHANGED <<counters, issued>>
                  /\ \A c \in BookIds \ {b} : books'[c] = books[c]
                  /\ find_one(b).present =>
                       /\ books'[b].total_copies = books[b].total_copies + n
                       /\ books'[b].available_copies = books[b].available_copies + n
                       /\ books'[b].borrowed_copies = books[b].borrowed_copies
          /\ Took(p, "add_book_refetch", "idle") => UNCHANGED db]_vars

\* C14: no two stored books have the same (title, author), also when two
\* add_book requests for a pair that is not stored yet run concurrently.
C14_Original ==
    \A b, c \in StoredBooks :
        (books[b].title = books[c].title /\ books[b].author = books[c].author) => b = c

\* C15: as long as update_book_status is not used, every stored book has
\* available = (available_copies > 0); a book created by add_book with c
\* copies gets available = (c > 0).
C15_Original ==
    \A b \in StoredBooks : books[b].available = (books[b].available_copies > 0)

\* A return_book request answered by its first database call.
ReturnAnsweredAtOnce == reply'.op = "return_book" /\ procs' = procs

\* The actor is the borrower of the record or an admin.
MayReturn(rec, u) == rec.user_id = u \/ is_admin(u)

\* C16: a return request for an ACTIVE record by an actor who is neither its
\* borrower nor an admin is answered 403 and writes nothing, so the record
\* stays ACTIVE and the counters stay as they are; the borrower and an admin
\* are let through to the book lookup.
C16_Permission ==
    [][/\ (ReturnAnsweredAtOnce /\ reply'.rec \in RecordIds
              /\ is_active(borrow_records[reply'.rec])) =>
            /\ reply'.status = 403
            /\ ~MayReturn(borrow_records[reply'.rec], reply'.user)
            /\ UNCHANGED db
            /\ is_active(borrow_records'[reply'.rec])
       /\ (ReturnAnsweredAtOnce /\ reply'.status = 403) =>
            /\ reply'.rec \in RecordIds
            /\ ~MayReturn(borrow_records[reply'.rec], reply'.user)
       /\ \A p \in Procs :
            Took(p, "idle", "return_book_find_book") =>
               /\ is_active(borrow_records[procs'[p].rec])
               /\ MayReturn(borrow_records[procs'[p].rec], procs'[p].user)
               /\ UNCHANGED db]_vars

\* A member was refused the return of a record that an other user holds and
\* that is still ACTIVE.
C16_Witness ==
    /\ reply.op = "return_book" /\ reply.status = 403
    /\ reply.rec \in RecordIds
    /\ is_active(borrow_records[reply.rec])
    /\ borrow_records[reply.rec].user_id # reply.user
    /\ ~is_admin(reply.user)

\* C17: no step removes a borrow record or changes its user or book; a
\* returned_at that is set is never cleared nor replaced by another
\* timestamp, also when two return requests for the record run concurrently;
\* a borrow adds a new record and leaves the stored ones as they are.
C17_Original ==
    [][/\ Len(borrow_records') >= Len(borrow_records)
       /\ \A r \in RecordIds :
            /\ borrow_records'[r].user_id = borrow_records[r].user_id
            /\ borrow_records'[r].book_id = borrow_records[r].book_id
            /\ ~is_active(borrow_records[r]) =>
                 borrow_records'[r].returned_at = borrow_records[r].returned_at
       /\ \A p \in Procs :
            Took(p, "borrow_book_insert", "idle") =>
               /\ Len(borrow_records') = Len(borrow_records) + 1
               /\ \A r \in RecordIds : borrow_records'[r] = borrow_records[r]]_vars

\* The ACTIVE borrow records that carry the user id u.
ActiveBorrowsOf(u) ==
    {r \in RecordIds : borrow_records[r].user_id = u /\ is_active(borrow_records[r])}

\* C18: delete_user fails when the caller names their own account and when
\* the user named has an ACTIVE borrow record, and the user stays stored; a
\* user is removed only while no ACTIVE borrow record carries their id.
C18_Original ==
    [][/\ (reply'.op = "delete_user" /\ ObjectId(reply'.target) # Invalid) =>
            LET t == ObjectId(reply'.target)
            IN /\ t = reply'.user => (reply'.status # 200 /\ users' = users)
               /\ (users[t].present /\ ActiveBorrowsOf(t) # {}) =>
                     (reply'.status # 200 /\ users' = users)
       /\ \A u \in UserIds :
            (users[u].present /\ ~users'[u].present) => ActiveBorrowsOf(u) = {}]_vars

\* C19: change_user_role fails when the role asked for is neither member nor
\* admin, when the caller names their own account and when the user named has
\* that role already; a failing request leaves every stored user as it is; a
\* successful one changes the role of the user named and nothing else; the
\* role of a stored user is never changed by a request of that user.
C19_ChangeRole ==
    [][/\ reply'.op = "change_user_role" =>
            LET t == ObjectId(reply'.target)
            IN /\ reply'.role \notin {"member", "admin"} => reply'.status # 200
               /\ t = reply'.user => reply'.status # 200
               /\ (t # Invalid /\ users[t].present /\ users[t].role = reply'.role) =>
                    reply'.status # 200
               /\ reply'.status # 200 => users' = users
               /\ reply'.status = 200 =>
                    /\ t # Invalid /\ users[t].present
                    /\ users' = [users EXCEPT ![t].role = reply'.role]
                    /\ users'[t].role # users[t].role
       /\ \A p \in Procs :
            Took(p, "idle", "change_user_role_update") => users' = users
       /\ \A u \in UserIds :
            (users[u].present /\ users'[u].present /\ users'[u].role # users[u].role) =>
               /\ reply'.op = "change_user_role" /\ reply'.status = 200
               /\ reply'.user # u]_vars

\* An admin has made another stored user an admin.
C19_Witness ==
    /\ reply.op = "change_user_role" /\ reply.status = 200
    /\ reply.role = "admin"
    /\ ObjectId(reply.target) # reply.user
    /\ users[ObjectId(reply.target)].present
    /\ users[ObjectId(reply.target)].role = "admin"

\* C20: the role of every stored user is member or admin, whatever register
\* and change_user_role were called with.
C20_Original ==
    \A u \in UserIds : users[u].present => users[u].role \in {"member", "admin"}

\* C21: no two stored users have the same email; a registration with an
\* email that is stored fails and stores nothing, and a registration stores
\* its user only while no stored user has its email, also when two
\* registrations with the same email run concurrently.
C21_Original ==
    [][/\ \A u, v \in UserIds :
            (u # v /\ users'[u].present /\ users'[v].present) =>
               users'[u].email # users'[v].email
       /\ (reply'.op = "register" /\ reply'.status # 200) => users' = users
       /\ \A p \in Procs :
            /\ Took(p, "idle", "register_insert") =>
                 ~email_registered(procs'[p].email) /\ users' = users
            /\ Took(p, "register_insert", "idle") =>
                 ~email_registered(procs[p].email)]_vars

\* C22: the write of the legacy PUT status request on a stored book leaves
\* available_copies = total_copies and borrowed_copies = 0 when available is
\* true, available_copies = 0 and borrowed_copies = total_copies when it is
\* false; total_copies and every borrow record stay as they are.
C22_Original ==
    [][\A p \in Procs :
          (Took(p, "update_book_status_update", "idle")
             /\ find_one(procs[p].book_id).present) =>
             LET b == procs[p].book_id
             IN /\ books'[b].total_copies = books[b].total_copies
                /\ books'[b].available_copies =
                      (IF procs[p].flag THEN books'[b].total_copies ELSE 0)
                /\ books'[b].borrowed_copies =
                      (IF procs[p].flag THEN 0 ELSE books'[b].total_copies)
                /\ borrow_records' = borrow_records]_vars

\* C23: a return request writes the book's counters before it sets the
\* record's returned_at: while the counter write of a return request is still
\* to come, the record it returns is still ACTIVE.
C23_Original ==
    \A p \in Procs :
        procs[p].pc \in {"return_book_update_record", "return_book_update_book"} =>
           is_active(borrow_records[procs[p].rec])

\* No request is in flight.
Quiet == \A p \in Procs : procs[p].pc = "idle"

\* C24: with one request at a time and without the legacy PUT, between the
\* requests every stored book's borrowed_copies is the number of ACTIVE
\* borrow records of that book.
C24_Ledger ==
    Quiet => \A b \in StoredBooks : books[b].borrowed_copies = Cardinality(ActiveRecords(b))

\* One of two loans of a book has been returned and the other one is counted.
C24_Witness ==
    /\ Quiet
    /\ reply.op = "return_book" /\ reply.status = 200
    /\ books[reply.book_id].present
    /\ books[reply.book_id].borrowed_copies = 1
    /\ Cardinality(ActiveRecords(reply.book_id)) = 1

\* The requests that change a stored book in place.
BookMutations ==
    {"add_book_copies", "remove_book_copies", "update_book_status", "discontinue_book"}

\* C25: add-copies, remove-copies, the legacy PUT status and discontinue
\* answer NotFound only when no book with the id is stored; a request whose
\* values are those already stored is not answered as a missing book.
C25_Original ==
    [][(reply'.op \in BookMutations /\ reply'.status = 404) =>
          ~find_one(reply'.book_id).present]_vars

\* C26: the book of every ACTIVE borrow record is stored, and no return
\* request is answered NotFound for the book.
C26_Original ==
    /\ \A r \in RecordIds :
          is_active(borrow_records[r]) => find_one(borrow_records[r].book_id).present
    /\ ~(reply.op = "return_book" /\ NotFoundReply(reply))

\* C27: a stored book that is discontinued has total_copies, available_copies
\* and borrowed_copies 0 and available false, whatever requests followed the
\* discontinue.
C27_Original ==
    \A b \in StoredBooks :
        books[b].discontinued =>
           /\ books[b].total_copies = 0
           /\ books[b].available_copies = 0
           /\ books[b].borrowed_copies = 0
           /\ ~books[b].available

====
